---- MODULE Spec2Model ----
(***************************************************************************)
(* Field-team resource finder: the geospatial filtering and route-ranking  *)
(* pipeline of the resource_finder package and the Tk event handlers that  *)
(* drive it.                                                               *)
(*                                                                         *)
(* Conventions                                                             *)
(*   - a DataFrame / GeoDataFrame is a sequence of row records;            *)
(*   - a nullable value is <<>> (None / NaN) or <<v>>;                     *)
(*   - coordinates are whole degrees on a small grid; distances are kept   *)
(*     in fixed point (haversine in metres, drive_km in thousandths of a   *)
(*     km, drive_min in thousandths of a minute);                          *)
(*   - a function that may raise returns [ok |-> FALSE, err |-> e] or      *)
(*     [ok |-> TRUE, val |-> v].                                           *)
(***************************************************************************)
EXTENDS Integers, Sequences, FiniteSets, TLC

VARIABLES
    \* ---- ResourceFinderApp (resource_finder/gui_app.py) ----
    pc_read,       \* None, or the entry text (pc_var) the last handler read
    bu_var,        \* business-unit combobox value
    bu_values,     \* values offered by the business-unit combobox
    internal_var,  \* "either" / "1" / "0"
    minutes_var,   \* "15" / "30" / "45" / "60"
    current_pc,    \* None or the normalized postcode of the last lookup
    site,          \* None or <<lon, lat>>   (site_lon, site_lat)
    iso_gdf,       \* None or the band frame
    filtered,      \* rows of the last locate phase
    routes_df,     \* rows of the last successful routing phase
    tree,          \* ids of the rows shown in the table
    selection,     \* None or the index of the selected table row
    map_route,     \* None or the id of the team whose route is drawn
    handler,       \* name of the handler that ran last
    reqs,          \* external requests issued by the handler that ran last
    dialog,        \* message box shown by the handler that ran last
    osrm_client,   \* callable bound to the name osrm_route in routing_config
    \* ---- direct calls of the pipeline functions ----
    in,            \* arguments of the call
    out            \* <<>> before the call, <<result>> after it

guiVars == <<pc_read, bu_var, bu_values, internal_var, minutes_var, current_pc,
             site, iso_gdf, filtered, routes_df, tree, selection, map_route,
             handler, reqs, dialog>>
vars == <<pc_read, bu_var, bu_values, internal_var, minutes_var, current_pc,
          site, iso_gdf, filtered, routes_df, tree, selection, map_route,
          handler, reqs, dialog, osrm_client, in, out>>

-----------------------------------------------------------------------------
(* Bounds of the model *)

\* most rows in a frame handed directly to a pipeline function
MaxTeams == 3
\* largest top_n / limit tried
MaxTopN == 3
\* the largest number of features of an isochrone response
MaxFeatures == 3

-----------------------------------------------------------------------------
(* Generic helpers *)

Min(a, b) == IF a <= b THEN a ELSE b
Max(a, b) == IF a >= b THEN a ELSE b
Abs(a) == IF a >= 0 THEN a ELSE -a

None == <<>>
Some(v) == <<v>>

\* A string is a sequence of characters; CharOrder lists the characters of
\* the model by code point.
CharOrder == <<" ", "(", ")", "A", "B", "N", "X", "Y", "a", "b", "n", "x", "y">>
Code(c) == CHOOSE i \in 1..Len(CharOrder) : CharOrder[i] = c

\* a < b for strings (Python's str comparison)
RECURSIVE StrLess(_, _)
StrLess(a, b) ==
    IF b = <<>> THEN FALSE
    ELSE IF a = <<>> THEN TRUE
    ELSE IF Head(a) # Head(b) THEN Code(Head(a)) < Code(Head(b))
    ELSE StrLess(Tail(a), Tail(b))

\* str.upper()
UpperChar(c) ==
    CASE c = "a" -> "A" [] c = "b" -> "B" [] c = "n" -> "N"
      [] c = "x" -> "X" [] c = "y" -> "Y" [] OTHER -> c
upper(s) == [i \in 1..Len(s) |-> UpperChar(s[i])]

\* str.strip()
RECURSIVE lstrip(_)
lstrip(s) == IF s # <<>> /\ Head(s) = " " THEN lstrip(Tail(s)) ELSE s
RECURSIVE rstrip(_)
rstrip(s) ==
    IF s # <<>> /\ s[Len(s)] = " " THEN rstrip(SubSeq(s, 1, Len(s) - 1)) ELSE s
strip(s) == rstrip(lstrip(s))

\* str.replace(' ', '')
remove_spaces(s) == SelectSeq(s, LAMBDA c : c # " ")

Ok(v) == [ok |-> TRUE, val |-> v]
Raise(e) == [ok |-> FALSE, err |-> e]

\* the orderings of a finite set, as sequences
RECURSIVE Orderings(_)
Orderings(S) ==
    IF S = {} THEN {<<>>}
    ELSE UNION { { <<x>> \o p : p \in Orderings(S \ {x}) } : x \in S }

\* the permutations of 1..n
Perms(n) == Orderings(1..n)

\* DataFrame.head(n): first n rows; all but the last |n| rows when n < 0
head(df, n) ==
    IF n >= 0 THEN SubSeq(df, 1, Min(n, Len(df)))
              ELSE SubSeq(df, 1, Max(0, Len(df) + n))

-----------------------------------------------------------------------------
(* routing_config.py *)

\* haversine_km on whole-degree coordinates 0..4, in metres (rounded):
\* HavTable[lat1+1][lat2+1][|lon2-lon1|+1] with R = 6371.0088 km
HavTable ==
  << << <<0, 111195, 222390, 333585, 444780>>,
        <<111195, 157250, 248630, 351614, 458447>>,
        <<222390, 248630, 314475, 400863, 497199>>,
        <<333585, 351614, 400863, 471653, 555813>>,
        <<444780, 458447, 497199, 555813, 628759>> >>,
     << <<111195, 157250, 248630, 351614, 458447>>,
        <<0, 111178, 222356, 333534, 444713>>,
        <<111195, 157226, 248569, 351517, 458316>>,
        <<222390, 248607, 314403, 400736, 497017>>,
        <<333585, 351592, 400788, 471509, 555596>> >>,
     << <<222390, 248630, 314475, 400863, 497199>>,
        <<111195, 157226, 248569, 351517, 458316>>,
        <<0, 111127, 222255, 333382, 444509>>,
        <<111195, 157178, 248448, 351324, 458053>>,
        <<222390, 248569, 314284, 400525, 496714>> >>,
     << <<333585, 351614, 400863, 471653, 555813>>,
        <<222390, 248607, 314403, 400736, 497017>>,
        <<111195, 157178, 248448, 351324, 458053>>,
        <<0, 111043, 222085, 333128, 444171>>,
        <<111195, 157106, 248266, 351035, 457658>> >>,
     << <<444780, 458447, 497199, 555813, 628759>>,
        <<333585, 351592, 400788, 471509, 555596>>,
        <<222390, 248569, 314284, 400525, 496714>>,
        <<111195, 157106, 248266, 351035, 457658>>,
        <<0, 110924, 221848, 332772, 443696>> >> >>

haversine_km(lat1, lon1, lat2, lon2) ==
    HavTable[lat1 + 1][lat2 + 1][Abs(lon2 - lon1) + 1]

\* tmp["air_km"] = [haversine_km(site_lat, site_lon, Latitude, Longitude) ...]
WithAirKm(df, site_lon, site_lat) ==
    [i \in 1..Len(df) |->
        df[i] @@ [air_km |-> haversine_km(site_lat, site_lon, df[i].lat, df[i].lon)]]

\* mutant: the ordering step is left out
sort_values_air_km_unsorted(df) == {df}

\* DataFrame.sort_values("air_km"): the default sort kind is not stable, so
\* rows with equal keys may come out in any order
sort_values_air_km(df) ==
    { [i \in 1..Len(df) |-> df[p[i]]] : p \in
        {q \in Perms(Len(df)) :
            \A i \in 1..(Len(df) - 1) : df[q[i]].air_km <= df[q[i + 1]].air_km} }

\* the set of frames preselect_by_air_distance may return
preselect_by_air_distance(teams_df, site_lon, site_lat, top_n) ==
    IF teams_df = <<>>
    THEN {<<>>}
    ELSE {head(s, top_n) : s \in sort_values_air_km(WithAirKm(teams_df, site_lon, site_lat))}

-----------------------------------------------------------------------------
(* api_config.py: osrm_route *)

\* CO2_PER_KM_KG = 0.171, in thousandths of a kg per km
CO2_PER_KM_KG == 171

\* x / d as a fixed-point number in thousandths
FixDiv(x, d) == (x * 1000) \div d

\* What the routing service may answer to one request:
\*   a route with distance (m) and duration (s), a success without routes,
\*   or a non-success status (raise_for_status raises)
RouteAnswers ==
    { [status |-> "ok", routes |-> <<[distance |-> 1000, duration |-> 60]>>],
      [status |-> "ok", routes |-> <<[distance |-> 2000, duration |-> 60]>>],
      [status |-> "ok", routes |-> <<[distance |-> 1000, duration |-> 120]>>],
      [status |-> "ok", routes |-> <<>>],
      [status |-> "error", routes |-> <<>>] }

\* a result that reports the duration in seconds
osrm_route_result_seconds(r) ==
    IF r.status # "ok" THEN Raise("HTTPError")
    ELSE IF r.routes = <<>> THEN Raise("IndexError")
    ELSE LET route == r.routes[1]
             distance_km == FixDiv(route.distance, 1000)
         IN  Ok([distance_km |-> distance_km,
                 duration_min |-> route.duration * 1000,
                 co2_kg |-> (distance_km * CO2_PER_KM_KG) \div 1000])

\* body of osrm_route once the request has been answered with r
osrm_route_result(r) ==
    IF r.status # "ok" THEN Raise("HTTPError")
    ELSE IF r.routes = <<>> THEN Raise("IndexError")
    ELSE LET route == r.routes[1]
             distance_km == FixDiv(route.distance, 1000)
             duration_min == FixDiv(route.duration, 60)
         IN  Ok([distance_km |-> distance_km,
                 duration_min |-> duration_min,
                 co2_kg |-> (distance_km * CO2_PER_KM_KG) \div 1000])

\* The callables the name osrm_route can be bound to in routing_config:
\*   "api_config"   api_config.osrm_route, whose parameters are start_lon,
\*                  start_lat, dest_lon, dest_lat only;
\*   "keyword_stub" a replacement (installed the way the tests replace
\*                  osrm_route) that also takes include_geometry and
\*                  otherwise answers as osrm_route does.
OsrmClients == {"api_config", "keyword_stub"}

\* does the callable take the keyword argument include_geometry?
AcceptsIncludeGeometry(client) == client = "keyword_stub"

\* what the "keyword_stub" callable returns: osrm_route's result, with the
\* road path under "geometry" when include_geometry is set
keyword_stub_result(r, include_geometry) ==
    LET res == osrm_route_result(r)
    IN  IF ~res.ok THEN res
        ELSE Ok(res.val @@ [geometry |-> IF include_geometry
                                         THEN Some("LineString") ELSE None])

\* res = osrm_route(start_lon=..., start_lat=..., dest_lon=site_lon,
\*                  dest_lat=site_lat, include_geometry=include_geometry)
\* for candidate row r; answer is what the service would answer.
\* Gives the result and the requests sent (none when the call is rejected
\* before the body runs); a request is tagged with the team it is for.
call_osrm_route(client, r, site_lon, site_lat, include_geometry, answer) ==
    IF ~AcceptsIncludeGeometry(client)
    THEN [res |-> Raise("TypeError"), sent |-> <<>>]
    ELSE [res |-> keyword_stub_result(answer, include_geometry),
          sent |-> <<[kind |-> "route", team |-> r.id,
                      from |-> <<r.lon, r.lat>>,
                      to |-> <<site_lon, site_lat>>]>>]

-----------------------------------------------------------------------------
(* routing_config.py: route_rank_teams *)

\* rows.append({...}) for candidate r and route result res
RoutedRow(r, res) ==
    [id |-> r.id, bu |-> r.bu, ic |-> r.ic,
     team_lon |-> r.lon, team_lat |-> r.lat, air_km |-> r.air_km,
     drive_km |-> res.distance_km, drive_min |-> res.duration_min,
     co2_kg |-> res.co2_kg,
     geometry |-> IF "geometry" \in DOMAIN res THEN res.geometry ELSE None]

\* mutant: sorted on drive_min alone
DriveLeq_duration_only(a, b) == a.drive_min <= b.drive_min

\* (drive_min, drive_km) of a is not after that of b
DriveLeq(a, b) ==
    \/ a.drive_min < b.drive_min
    \/ a.drive_min = b.drive_min /\ a.drive_km <= b.drive_km

\* DataFrame.sort_values(["drive_min", "drive_km"]); rows equal on both keys
\* in either order
sort_values_drive(rows) ==
    { [i \in 1..Len(rows) |-> rows[p[i]]] : p \in
        {q \in Perms(Len(rows)) :
            \A i \in 1..(Len(rows) - 1) : DriveLeq(rows[q[i]], rows[q[i + 1]])} }

RECURSIVE Concat(_)
Concat(ss) == IF ss = <<>> THEN <<>> ELSE Head(ss) \o Concat(Tail(ss))

\* mutant: a candidate whose call raises is skipped and the loop goes on
RouteLoop_skip_failed(cand, site_lon, site_lat, include_geometry, client, service) ==
    LET n == Len(cand)
        calls == [i \in 1..n |->
                    call_osrm_route(client, cand[i], site_lon, site_lat,
                                    include_geometry, service[cand[i].id])]
        good == SelectSeq([i \in 1..n |-> i], LAMBDA i : calls[i].res.ok)
    IN  [raised |-> FALSE,
         err |-> "none",
         rows |-> [k \in 1..Len(good) |->
                      RoutedRow(cand[good[k]], calls[good[k]].res.val)],
         sent |-> Concat([i \in 1..n |-> calls[i].sent])]

\* the for loop over cand: every call in order up to the first that raises
RouteLoop(cand, site_lon, site_lat, include_geometry, client, service) ==
    LET n == Len(cand)
        calls == [i \in 1..n |->
                    call_osrm_route(client, cand[i], site_lon, site_lat,
                                    include_geometry, service[cand[i].id])]
        failed == {i \in 1..n : ~calls[i].res.ok}
        stop == IF failed = {} THEN n
                ELSE CHOOSE i \in failed : \A j \in failed : i <= j
    IN  [raised |-> failed # {},
         err |-> IF failed = {} THEN "none" ELSE calls[stop].res.err,
         rows |-> [i \in 1..(IF failed = {} THEN n ELSE stop - 1) |->
                      RoutedRow(cand[i], calls[i].res.val)],
         sent |-> Concat([i \in 1..stop |-> calls[i].sent])]

\* mutant: no early return for an empty preselection, so sort_values is
\* applied to a frame without the drive columns
route_rank_teams_no_empty_check(teams_df, site_lon, site_lat, top_n, include_geometry, client, service) ==
    UNION {
        LET loop == RouteLoop(cand, site_lon, site_lat, include_geometry,
                              client, service)
        IN  IF loop.raised
            THEN { [ret |-> Raise(loop.err), sent |-> loop.sent] }
            ELSE IF loop.rows = <<>>
            THEN { [ret |-> Raise("KeyError"), sent |-> loop.sent] }
            ELSE { [ret |-> Ok(s), sent |-> loop.sent] :
                       s \in sort_values_drive(loop.rows) }
        : cand \in preselect_by_air_distance(teams_df, site_lon, site_lat, top_n) }

\* the outcomes route_rank_teams may have: what it returns or raises (ret)
\* and the routing requests it sent
route_rank_teams(teams_df, site_lon, site_lat, top_n, include_geometry, client, service) ==
    UNION {
        IF cand = <<>>
        THEN { [ret |-> Ok(<<>>), sent |-> <<>>] }
        ELSE LET loop == RouteLoop(cand, site_lon, site_lat, include_geometry,
                                   client, service)
             IN  IF loop.raised
                 THEN { [ret |-> Raise(loop.err), sent |-> loop.sent] }
                 ELSE { [ret |-> Ok(s), sent |-> loop.sent] :
                            s \in sort_values_drive(loop.rows) }
        : cand \in preselect_by_air_distance(teams_df, site_lon, site_lat, top_n) }

-----------------------------------------------------------------------------
(* geo_config.py: filter_teams_by_minutes *)

\* A polygon is an axis-parallel rectangle [x1, y1, x2, y2] with whole-degree
\* corners, x1 < x2 and y1 < y2; a geometry (Polygon or MultiPolygon) is the
\* set of its parts.
Rect(x1, y1, x2, y2) == [x1 |-> x1, y1 |-> y1, x2 |-> x2, y2 |-> y2]

\* the part covers the points next to <<x, y>> in the quadrant (sx, sy),
\* sx, sy \in {-1, 1}
CoversQuadrant(part, x, y, sx, sy) ==
    /\ IF sx = 1 THEN part.x1 <= x /\ x < part.x2
                 ELSE part.x1 < x /\ x <= part.x2
    /\ IF sy = 1 THEN part.y1 <= y /\ y < part.y2
                 ELSE part.y1 < y /\ y <= part.y2

\* mutant: the covers predicate, true on the boundary as well
within_or_on_boundary(x, y, parts) ==
    \E part \in parts : /\ part.x1 <= x /\ x <= part.x2
                        /\ part.y1 <= y /\ y <= part.y2

\* Point(x, y).within(union of parts): the point is in the interior of the
\* union, i.e. the union covers a whole neighbourhood of it
within(x, y, parts) ==
    \A sx, sy \in {-1, 1} : \E part \in parts : CoversQuadrant(part, x, y, sx, sy)

\* mutant: only the first selected row is used, no union
TargetParts_first_row(sel) == sel[1].geometry

\* sel.unary_union: the union of the geometries of all selected rows
TargetParts(sel) == UNION {sel[i].geometry : i \in 1..Len(sel)}

\* a filter that keeps every team when no row carries the value
filter_teams_by_minutes_keep_all(teams_gdf, bands, minutes) ==
    LET sel == SelectSeq(bands, LAMBDA b : b.minutes = minutes)
    IN  IF sel = <<>>
        THEN teams_gdf
        ELSE SelectSeq(teams_gdf, LAMBDA r : within(r.lon, r.lat, TargetParts(sel)))

filter_teams_by_minutes(teams_gdf, bands, minutes) ==
    LET sel == SelectSeq(bands, LAMBDA b : b.minutes = minutes)
    IN  IF sel = <<>>
        THEN <<>>
        ELSE SelectSeq(teams_gdf, LAMBDA r : within(r.lon, r.lat, TargetParts(sel)))

-----------------------------------------------------------------------------
(* geo_config.py: teams_to_gdf, attribute filters *)

\* dropna(subset=["Latitude", "Longitude"]) and the Point geometry
teams_to_gdf(fieldteams_df) ==
    LET ft == SelectSeq(fieldteams_df,
                        LAMBDA r : r.Latitude # None /\ r.Longitude # None)
    IN  [i \in 1..Len(ft) |->
            [id |-> ft[i].id, bu |-> ft[i].bu, ic |-> ft[i].ic,
             lon |-> ft[i].Longitude[1], lat |-> ft[i].Latitude[1]]]

\* a coordinate held as a text that is no number (for instance "abc"); a
\* number is Some(n), a missing value None
NonNumeric == <<0, 0>>

\* teams_to_gdf as a call that may raise: after dropna, astype(float) raises
\* on a coordinate that is no number
teams_to_gdf_result(fieldteams_df) ==
    LET ft == SelectSeq(fieldteams_df,
                        LAMBDA r : r.Latitude # None /\ r.Longitude # None)
    IN  IF \E i \in 1..Len(ft) : ft[i].Latitude = NonNumeric \/ ft[i].Longitude = NonNumeric
        THEN Raise("ValueError")
        ELSE Ok(teams_to_gdf(fieldteams_df))

\* pd.to_numeric(column, errors="coerce"): what is no number becomes missing
to_numeric_coerce(v) == IF v = NonNumeric THEN None ELSE v

\* the two load_fieldteams: run_gui_sql.py coerces Latitude and Longitude,
\* __main__.py returns the rows as read
load_fieldteams(loader, rows) ==
    IF loader = "run_gui_sql"
    THEN [i \in 1..Len(rows) |->
            [rows[i] EXCEPT !.Latitude = to_numeric_coerce(@),
                            !.Longitude = to_numeric_coerce(@)]]
    ELSE rows

\* the "(Any)" entry of the business-unit list
AnyBU == <<"(", "A", "n", "y", ")">>

\* a list built without unique(): one entry per row that has a value
list_business_units_no_unique(df) ==
    LET rows == {k \in 1..Len(df) : df[k].bu # None}
        order == CHOOSE s \in Orderings(rows) :
                    \A i \in 1..(Len(s) - 1) : ~StrLess(df[s[i + 1]].bu[1], df[s[i]].bu[1])
    IN  <<AnyBU>> \o [i \in 1..Len(order) |-> df[order[i]].bu[1]]

\* a list of the upper-cased values
list_business_units_upper(df) ==
    LET vals == {upper(df[i].bu[1]) : i \in {k \in 1..Len(df) : df[k].bu # None}}
        sorted == CHOOSE s \in Orderings(vals) :
                     \A i \in 1..(Len(s) - 1) : StrLess(s[i], s[i + 1])
    IN  <<AnyBU>> \o sorted

\* ["(Any)"] + sorted distinct non-null BusinessUnit values
list_business_units(df) ==
    LET vals == {df[i].bu[1] : i \in {k \in 1..Len(df) : df[k].bu # None}}
        sorted == CHOOSE s \in Orderings(vals) :
                     \A i \in 1..(Len(s) - 1) : StrLess(s[i], s[i + 1])
    IN  <<AnyBU>> \o sorted

filter_by_business_unit(teams_gdf, business_unit) ==
    IF business_unit = <<>> \/ business_unit = AnyBU
    THEN teams_gdf
    ELSE SelectSeq(teams_gdf, LAMBDA r : r.bu = Some(business_unit))

\* internal_flag is None, Some(0) or Some(1); astype(int) raises on a frame
\* with a missing InternalContractor value
filter_by_internal_flag(teams_gdf, internal_flag) ==
    IF internal_flag \in {Some(0), Some(1)}
    THEN IF \E i \in 1..Len(teams_gdf) : teams_gdf[i].ic = None
         THEN Raise("ValueError")
         ELSE Ok(SelectSeq(teams_gdf, LAMBDA r : r.ic = internal_flag))
    ELSE Ok(teams_gdf)

apply_team_filters(teams_gdf, business_unit, internal_flag) ==
    filter_by_internal_flag(filter_by_business_unit(teams_gdf, business_unit),
                            internal_flag)

-----------------------------------------------------------------------------
(* geo_config.py: isochrone_to_gdf *)

\* int(props.get("contour")): the attribute is a number, a string or absent
ParseInt(s) ==
    CASE s = "15" -> Some(15) [] s = "30" -> Some(30)
      [] s = "45" -> Some(45) [] s = "60" -> Some(60) [] OTHER -> None

int_contour(c) ==
    CASE c.t = "num" -> Ok(c.n)
      [] c.t = "str" -> IF ParseInt(c.v) = None THEN Raise("ValueError")
                        ELSE Ok(ParseInt(c.v)[1])
      [] OTHER -> Raise("TypeError")

Feature(contour, geometry) == [contour |-> contour, geometry |-> geometry]

\* the rows left in the order of the features
sort_values_minutes_unsorted(rows) == {rows}

\* DataFrame.sort_values("minutes"): rows of equal minutes in any order
sort_values_minutes(rows) ==
    { [i \in 1..Len(rows) |-> rows[p[i]]] : p \in
        {q \in Perms(Len(rows)) :
            \A i \in 1..(Len(rows) - 1) : rows[q[i]].minutes <= rows[q[i + 1]].minutes} }

\* a conversion that skips the features whose contour cannot be parsed
isochrone_to_gdf_drop_bad(features) ==
    LET good == SelectSeq(features, LAMBDA f : int_contour(f.contour).ok)
    IN  {Ok(s) : s \in sort_values_minutes(
            [i \in 1..Len(good) |->
                [minutes |-> int_contour(good[i].contour).val,
                 geometry |-> good[i].geometry]])}

\* iso_geojson.get("features", []) if iso_geojson else []
ResponseFeatures(iso_geojson) ==
    IF iso_geojson = None THEN <<>>
    ELSE IF "features" \in DOMAIN iso_geojson THEN iso_geojson.features
    ELSE <<>>

\* the outcomes of isochrone_to_gdf on a feature list
isochrone_to_gdf(features) ==
    IF features = <<>>
    THEN {Ok(<<>>)}
    ELSE LET parsed == [i \in 1..Len(features) |-> int_contour(features[i].contour)]
             bad == {i \in 1..Len(features) : ~parsed[i].ok}
         IN  IF bad # {}
             THEN {Raise(parsed[CHOOSE i \in bad : \A j \in bad : i <= j].err)}
             ELSE {Ok(s) : s \in sort_values_minutes(
                      [i \in 1..Len(features) |->
                          [minutes |-> parsed[i].val,
                           geometry |-> features[i].geometry]])}

-----------------------------------------------------------------------------
(* api_config.py: geocode_postcode, fetch_isochrone *)

\* what postcodes.io knows: the postcode (spaces removed) and its point
SiteOf(key) ==
    CASE key = <<"A">> -> <<1, 1>>
      [] key = <<"B">> -> <<3, 2>>
      [] OTHER -> <<0, 0>>

\* answers postcodes.io may give to a request for key
GeocodeAnswers(key) ==
    { [status |-> 200, result |-> SiteOf(key)],
      [status |-> 404, result |-> <<>>],
      [status |-> 500, result |-> <<>>] }

\* geocode_postcode once requests.get has raised (r.raised, no response) or
\* the request has been answered with r; a 200 answer without "result" has
\* r.result = <<>>
geocode_postcode_result(r) ==
    IF "raised" \in DOMAIN r THEN Raise(r.raised)
    ELSE IF r.status = 404 THEN Raise("PostcodeNotFound")
    ELSE IF r.status # 200 THEN Raise("HTTPError")
    ELSE IF r.result = <<>> THEN Raise("KeyError")
    ELSE Ok(r.result)

\* the key geocode_postcode asks postcodes.io for
geocode_key(postcode) == remove_spaces(upper(strip(postcode)))

\* the isochrone features of a site: the 60 and the 15 minute contour
IsoFeatures(pt) ==
    IF pt = <<1, 1>>
    THEN << Feature([t |-> "num", n |-> 60], {Rect(0, 0, 4, 2)}),
            Feature([t |-> "num", n |-> 15], {Rect(0, 0, 2, 2)}) >>
    ELSE << Feature([t |-> "num", n |-> 60], {Rect(1, 0, 4, 4)}),
            Feature([t |-> "num", n |-> 15], {Rect(2, 1, 4, 3)}) >>

\* answers the isochrone service may give for a site
IsoAnswers(pt) ==
    { [status |-> 200, features |-> IsoFeatures(pt)],
      [status |-> 200, features |-> <<>>],
      [status |-> 200, features |-> <<Feature([t |-> "none"], {Rect(0, 0, 2, 2)})>>],
      [status |-> 500, features |-> <<>>] }

\* fetch_isochrone once the request has been answered with r
fetch_isochrone_result(r) ==
    IF r.status # 200 THEN Raise("HTTPError") ELSE Ok(r.features)

-----------------------------------------------------------------------------
(* Inputs of the direct calls *)

TeamPoints == {<<0, 1>>, <<2, 1>>, <<3, 3>>}
SitePoints == {<<1, 1>>, <<3, 2>>}

\* a team row with coordinates pt = <<lon, lat>>
TeamRow(i, pt, bu, ic) ==
    [id |-> i, bu |-> bu, ic |-> ic, lon |-> pt[1], lat |-> pt[2]]

PointFrames ==
    UNION { { [i \in 1..n |-> TeamRow(i, f[i], Some(<<"X">>), Some(1))] : f \in [1..n -> TeamPoints] }
            : n \in 0..MaxTeams }

-----------------------------------------------------------------------------
(* The application before any event *)

\* The roster handed to the application (self.df): a team may lack
\* coordinates, a business unit or the internal flag.
RosterRow(i, lon, lat, bu, ic) ==
    [id |-> i, bu |-> bu, ic |-> ic, Longitude |-> lon, Latitude |-> lat]

Roster ==
    << RosterRow(1, Some(1), Some(1), Some(<<"X">>), Some(1)),
       RosterRow(2, Some(3), Some(1), Some(<<"Y">>), Some(0)),
       RosterRow(3, None, None, None, None) >>

GuiInit ==
    /\ pc_read = None
    /\ bu_var = AnyBU
    /\ bu_values = list_business_units(Roster)
    /\ internal_var = "either"
    /\ minutes_var = "60"
    /\ current_pc = None
    /\ site = None
    /\ iso_gdf = None
    /\ filtered = <<>>
    /\ routes_df = <<>>
    /\ tree = <<>>
    /\ selection = None
    /\ map_route = None
    /\ handler = "init"
    /\ reqs = <<>>
    /\ dialog = "none"

-----------------------------------------------------------------------------
(* gui_app.py: the user's inputs *)

\* texts typed into the postcode entry: "", " a", "A", "b"
PostcodeInputs == {<<>>, <<" ", "a">>, <<"A">>, <<"b">>}

ChooseBusinessUnit ==
    /\ \E i \in 1..Len(bu_values) : bu_var' = bu_values[i]
    /\ handler' = "input"
    /\ pc_read' = None
    /\ reqs' = <<>>
    /\ dialog' = "none"
    /\ UNCHANGED <<bu_values, internal_var, minutes_var, current_pc,
                   site, iso_gdf, filtered, routes_df, tree, selection,
                   map_route, osrm_client, in, out>>

ChooseInternal ==
    /\ \E v \in {"either", "1", "0"} : internal_var' = v
    /\ handler' = "input"
    /\ pc_read' = None
    /\ reqs' = <<>>
    /\ dialog' = "none"
    /\ UNCHANGED <<bu_var, bu_values, minutes_var, current_pc,
                   site, iso_gdf, filtered, routes_df, tree, selection,
                   map_route, osrm_client, in, out>>

\* the radio buttons used by the model: 15 and 60 minutes
ChooseMinutes ==
    /\ \E v \in {"15", "60"} : minutes_var' = v
    /\ handler' = "input"
    /\ pc_read' = None
    /\ reqs' = <<>>
    /\ dialog' = "none"
    /\ UNCHANGED <<bu_var, bu_values, internal_var, current_pc,
                   site, iso_gdf, filtered, routes_df, tree, selection,
                   map_route, osrm_client, in, out>>

-----------------------------------------------------------------------------
(* gui_app.py: the event handlers *)

\* top_n of the routing phase
TopN == 20

Ids(df) == [i \in 1..Len(df) |-> df[i].id]

\* _refresh_bu_options: the values offered and the value selected afterwards
RefreshedValues(within_df) ==
    IF within_df # <<>> THEN list_business_units(within_df)
                        ELSE list_business_units(Roster)

RefreshedChoice(values) ==
    IF \E i \in 1..Len(values) : values[i] = bu_var THEN bu_var ELSE AnyBU

ErrorTitle(err) ==
    CASE err = "PostcodeNotFound" -> "Invalid postcode"
      [] err = "HTTPError" -> "Service error"
      [] OTHER -> "Error"

GeocodeRequest(pc) == [kind |-> "geocode", key |-> geocode_key(pc)]
IsochroneRequest(pt) == [kind |-> "isochrone", at |-> pt]

\* a handler that looks the postcode up whatever the cached one is
EarlyReturn_empty_only(pc) == pc = <<>>

\* "if not pc or pc == self.current_pc: return"
EarlyReturn(pc) == pc = <<>> \/ current_pc = Some(pc)

\* the entry holds text when <Return> or <FocusOut> runs the handler
OnPostcodeChanged(text) ==
    LET pc == upper(strip(text))
    IN  /\ pc_read' = Some(text)
        /\ handler' = "postcode"
        /\ UNCHANGED <<internal_var, minutes_var, routes_df,
                       osrm_client, in, out>>
        /\ IF EarlyReturn(pc)
           THEN /\ reqs' = <<>>
                /\ dialog' = "none"
                /\ UNCHANGED <<bu_var, bu_values, current_pc, site, iso_gdf,
                               filtered, tree, selection, map_route>>
           ELSE \E ga \in GeocodeAnswers(geocode_key(pc)) :
                LET geo == geocode_postcode_result(ga)
                IN  IF ~geo.ok
                    THEN /\ reqs' = <<GeocodeRequest(pc)>>
                         /\ dialog' = ErrorTitle(geo.err)
                         /\ UNCHANGED <<bu_var, bu_values, current_pc, site,
                                        iso_gdf, filtered, tree, selection,
                                        map_route>>
                    ELSE \E ia \in IsoAnswers(geo.val) :
                         \E gdf \in IF fetch_isochrone_result(ia).ok
                                    THEN isochrone_to_gdf(fetch_isochrone_result(ia).val)
                                    ELSE {fetch_isochrone_result(ia)} :
                            /\ reqs' = <<GeocodeRequest(pc), IsochroneRequest(geo.val)>>
                            /\ site' = geo.val
                            /\ IF ~gdf.ok
                               THEN /\ dialog' = ErrorTitle(gdf.err)
                                    /\ UNCHANGED <<bu_var, bu_values, current_pc,
                                                   iso_gdf, filtered, tree,
                                                   selection, map_route>>
                               ELSE LET within60 == filter_teams_by_minutes(
                                                       teams_to_gdf(Roster), gdf.val, 60)
                                    IN  /\ iso_gdf' = Some(gdf.val)
                                        /\ current_pc' = Some(pc)
                                        /\ bu_values' = RefreshedValues(within60)
                                        /\ bu_var' = RefreshedChoice(RefreshedValues(within60))
                                        /\ filtered' = within60
                                        /\ tree' = Ids(within60)
                                        /\ selection' = None
                                        /\ map_route' = None
                                        /\ dialog' = "none"

\* an Apply button that also asks the routing service about the rows shown
OnApplyFilters_routing ==
    /\ pc_read' = None
    /\ handler' = "apply"
    /\ reqs' = [i \in 1..Len(filtered) |-> [kind |-> "route", team |-> filtered[i].id]]
    /\ dialog' = IF iso_gdf = None THEN "Info" ELSE "none"
    /\ UNCHANGED <<bu_var, bu_values, internal_var, minutes_var, current_pc,
                   site, iso_gdf, filtered, routes_df, tree, selection,
                   map_route, osrm_client, in, out>>

OnApplyFilters ==
    /\ pc_read' = None
    /\ handler' = "apply"
    /\ reqs' = <<>>
    /\ UNCHANGED <<internal_var, minutes_var, current_pc, site,
                   iso_gdf, routes_df, osrm_client, in, out>>
    /\ IF iso_gdf = None
       THEN /\ dialog' = "Info"
            /\ UNCHANGED <<bu_var, bu_values, filtered, tree, selection, map_route>>
       ELSE LET minutes == ParseInt(minutes_var)[1]
                within_df == filter_teams_by_minutes(teams_to_gdf(Roster),
                                                     iso_gdf[1], minutes)
                values == RefreshedValues(within_df)
                bu_choice == RefreshedChoice(values)
                internal_flag == IF internal_var = "either" THEN None
                                 ELSE IF internal_var = "1" THEN Some(1) ELSE Some(0)
                res == apply_team_filters(within_df, bu_choice, internal_flag)
            IN  /\ bu_values' = values
                /\ bu_var' = bu_choice
                /\ IF ~res.ok
                   THEN \* the exception leaves the handler; Tk reports it
                        /\ dialog' = "traceback"
                        /\ UNCHANGED <<filtered, tree, selection, map_route>>
                   ELSE /\ filtered' = res.val
                        /\ tree' = Ids(res.val)
                        /\ selection' = None
                        /\ map_route' = None
                        /\ dialog' = "none"

\* what the routing service answers for a team, seen from the site: a route
\* along the grid, or a non-success status (for one team at most per click)
RoadAnswer(r, pt) ==
    [status |-> "ok",
     routes |-> <<[distance |-> 1000 * (Abs(r.lon - pt[1]) + Abs(r.lat - pt[2])),
                   duration |-> 60 * (Abs(r.lon - pt[1]) + 2 * Abs(r.lat - pt[2]))]>>]

GuiServices(pt) ==
    LET teams == teams_to_gdf(Roster)
    IN  { [i \in 1..Len(teams) |->
              IF i \in down THEN [status |-> "error", routes |-> <<>>]
                            ELSE RoadAnswer(teams[i], pt)]
          : down \in {d \in SUBSET (1..Len(teams)) : Cardinality(d) <= 1} }

\* the route drawn for the table row of team id: the first routes_df row of
\* that team, if it carries a line geometry
RouteShown(routes, id) ==
    LET rows == SelectSeq(routes, LAMBDA r : r.id = id)
    IN  IF rows = <<>> \/ rows[1].geometry = None THEN None ELSE Some(id)

OnCalculateRoutes ==
    /\ pc_read' = None
    /\ handler' = "calculate"
    /\ UNCHANGED <<bu_var, bu_values, internal_var, minutes_var,
                   current_pc, site, iso_gdf, filtered, osrm_client, in, out>>
    /\ IF site = None \/ filtered = <<>>
       THEN /\ reqs' = <<>>
            /\ dialog' = "Info"
            /\ UNCHANGED <<routes_df, tree, selection, map_route>>
       ELSE \E service \in GuiServices(site) :
            \E o \in route_rank_teams(filtered, site[1], site[2], TopN, TRUE,
                                      osrm_client, service) :
               /\ reqs' = o.sent
               /\ IF ~o.ret.ok
                  THEN /\ dialog' = "Routing error"
                       /\ UNCHANGED <<routes_df, tree, selection, map_route>>
                  ELSE IF o.ret.val = <<>>
                  THEN /\ dialog' = "Info"
                       /\ UNCHANGED <<routes_df, tree, selection, map_route>>
                  ELSE /\ routes_df' = o.ret.val
                       /\ tree' = Ids(o.ret.val)
                       /\ selection' = Some(1)
                       /\ map_route' = RouteShown(o.ret.val, o.ret.val[1].id)
                       /\ dialog' = "none"

\* the user selects a table row; <<TreeviewSelect>> runs on_row_select
OnRowSelect ==
    /\ \E i \in 1..Len(tree) :
          /\ selection' = Some(i)
          /\ map_route' = IF routes_df = <<>> THEN map_route
                          ELSE RouteShown(routes_df, tree[i])
    /\ pc_read' = None
    /\ handler' = "row_select"
    /\ reqs' = <<>>
    /\ dialog' = "none"
    /\ UNCHANGED <<bu_var, bu_values, internal_var, minutes_var,
                   current_pc, site, iso_gdf, filtered, routes_df, tree,
                   osrm_client, in, out>>

Init ==
    /\ GuiInit
    /\ osrm_client \in OsrmClients
    /\ in = <<>>
    /\ out = <<>>

Next ==
    \/ ChooseBusinessUnit
    \/ ChooseInternal
    \/ ChooseMinutes
    \/ \E text \in PostcodeInputs : OnPostcodeChanged(text)
    \/ OnApplyFilters
    \/ OnCalculateRoutes
    \/ OnRowSelect

Spec == Init /\ [][Next]_vars

-----------------------------------------------------------------------------
(* The requests of the graphical application *)

Kinds(rs) == {rs[i].kind : i \in 1..Len(rs)}

\* C1: whatever the sequence of events (postcode entry, filter choices, Apply,
\* row selection, Calculate), a request to the routing service is sent only
\* by the handler of Calculate routes.
C1_RoutingOnlyOnCalculate ==
    "route" \in Kinds(reqs) => handler = "calculate"

\* Calculate routes has sent a routing request for every team shown, after a
\* postcode lookup and an Apply that sent none.
C1_Witness ==
    /\ handler = "calculate"
    /\ current_pc # None
    /\ Len(reqs) = Len(filtered)
    /\ Len(reqs) = 2
    /\ Kinds(reqs) = {"route"}

\* the cached-key form of the text the handler read
Submitted(read) == upper(strip(read[1]))

\* C2: a geocoding or isochrone request is sent only by the postcode handler
\* and only when the normalised text it read is non-empty and differs from
\* the cached postcode; so, once a postcode is resolved, Apply and the
\* re-submission of the same normalised postcode send none.
C2_LookupOnlyOnNewPostcode ==
    [][ Kinds(reqs') \cap {"geocode", "isochrone"} # {}
          => /\ handler' = "postcode"
             /\ pc_read' # None
             /\ Submitted(pc_read') # <<>>
             /\ current_pc # Some(Submitted(pc_read')) ]_vars

\* the postcode "A" is resolved and cached, and the handler has just read
\* " a" and sent nothing
C2_Witness ==
    /\ handler = "postcode"
    /\ pc_read = Some(<<" ", "a">>)
    /\ current_pc = Some(<<"A">>)
    /\ iso_gdf # None
    /\ reqs = <<>>

-----------------------------------------------------------------------------
(* preselect_by_air_distance called directly *)

InitPreselect ==
    /\ GuiInit
    /\ osrm_client = "api_config"
    /\ in \in [teams : PointFrames, site : SitePoints, top_n : 0..MaxTopN]
    /\ out = <<>>

CallPreselect ==
    /\ out = <<>>
    /\ \E res \in preselect_by_air_distance(in.teams, in.site[1], in.site[2], in.top_n) :
          out' = <<res>>
    /\ UNCHANGED <<guiVars, osrm_client, in>>

SpecPreselect == InitPreselect /\ [][CallPreselect]_vars

-----------------------------------------------------------------------------
(* route_rank_teams called directly *)

RankPoints == {<<0, 1>>, <<3, 3>>}

RankFrames ==
    UNION { { [i \in 1..n |-> TeamRow(i, f[i], Some(<<"X">>), Some(1))] : f \in [1..n -> RankPoints] }
            : n \in 0..MaxTeams }

InitRank ==
    /\ GuiInit
    /\ osrm_client \in OsrmClients
    /\ \E teams \in RankFrames :
          in \in [teams : {teams}, site : {<<1, 1>>}, top_n : 0..MaxTopN,
                  include_geometry : BOOLEAN,
                  service : [1..Len(teams) -> RouteAnswers]]
    /\ out = <<>>

CallRank ==
    /\ out = <<>>
    /\ \E o \in route_rank_teams(in.teams, in.site[1], in.site[2], in.top_n,
                                 in.include_geometry, osrm_client, in.service) :
          out' = <<o>>
    /\ UNCHANGED <<guiVars, osrm_client, in>>

SpecRank == InitRank /\ [][CallRank]_vars

\* the service has a usable route for team i
Usable(i) == in.service[i].status = "ok" /\ in.service[i].routes # <<>>

\* number of candidates the call preselects
NCand == IF in.top_n >= 0 THEN Min(in.top_n, Len(in.teams)) ELSE 0

-----------------------------------------------------------------------------
\* C3: when some of the routing calls of one rank invocation succeed and
\* others fail, rank still returns the candidates that were routed (a shorter
\* result), never nothing.
C3_PartialBatchReturned ==
    (out # <<>> /\ AcceptsIncludeGeometry(osrm_client)
        /\ (\E q \in 1..Len(out[1].sent) : Usable(out[1].sent[q].team))
        /\ (\E q \in 1..Len(out[1].sent) : ~Usable(out[1].sent[q].team)))
    => /\ out[1].ret.ok
       /\ {out[1].ret.val[i].id : i \in 1..Len(out[1].ret.val)}
            = {out[1].sent[q].team : q \in {k \in 1..Len(out[1].sent) : Usable(out[1].sent[k].team)}}

\* C4: if the service fails or has no usable route for a candidate, rank
\* raises; a returned sequence holds every preselected candidate, each with
\* a route the service gave.
C4_FailurePropagates ==
    out # <<>> =>
        /\ (\E q \in 1..Len(out[1].sent) : ~Usable(out[1].sent[q].team))
              => (~out[1].ret.ok /\ out[1].ret.err \in {"HTTPError", "IndexError"})
        /\ out[1].ret.ok =>
              /\ Len(out[1].ret.val) = NCand
              /\ \A i \in 1..Len(out[1].ret.val) : Usable(out[1].ret.val[i].id)

\* two candidates, the first routed, the second refused by the service
C4_Witness ==
    /\ out # <<>>
    /\ Len(out[1].sent) = 2
    /\ Usable(out[1].sent[1].team)
    /\ ~Usable(out[1].sent[2].team)
    /\ ~out[1].ret.ok

\* C5: the returned sequence is ascending by drive duration; rows of equal
\* duration are ascending by road distance.
C5_SortedByDurationThenDistance ==
    (out # <<>> /\ out[1].ret.ok) =>
        LET res == out[1].ret.val
        IN  \A i \in 1..(Len(res) - 1) :
               /\ res[i].drive_min <= res[i + 1].drive_min
               /\ res[i].drive_min = res[i + 1].drive_min
                     => res[i].drive_km <= res[i + 1].drive_km

\* three rows returned: two of equal duration and different distance, given
\* to the service in the other order, and one of longer duration
C5_Witness ==
    /\ out # <<>>
    /\ out[1].ret.ok
    /\ Len(out[1].ret.val) = 3
    /\ out[1].ret.val[1].drive_min = out[1].ret.val[2].drive_min
    /\ out[1].ret.val[1].drive_km < out[1].ret.val[2].drive_km
    /\ out[1].ret.val[2].drive_min < out[1].ret.val[3].drive_min
    /\ \E q \in 1..2 : /\ out[1].sent[q].team = out[1].ret.val[2].id
                       /\ out[1].sent[q + 1].team = out[1].ret.val[1].id

\* C6: an empty team set gives an empty sequence and no routing request.
C6_EmptyInputNoRequest ==
    (out # <<>> /\ in.teams = <<>>) =>
        /\ out[1].ret = Ok(<<>>)
        /\ out[1].sent = <<>>

C6_Witness ==
    /\ out # <<>>
    /\ in.teams = <<>>
    /\ in.top_n > 0
    /\ out[1].ret.ok

\* C7: with a service that has a route for every team, a rank call on a
\* non-empty team set sends exactly min(number of teams, topN) requests, one
\* per preselected candidate, each from the team's point to the origin.
C7_OneRequestPerCandidate ==
    (out # <<>> /\ in.teams # <<>> /\ \A i \in 1..Len(in.teams) : Usable(i)) =>
        LET sent == out[1].sent
        IN  /\ Len(sent) = Min(Len(in.teams), in.top_n)
            /\ Len(sent) <= in.top_n
            /\ \A q, k \in 1..Len(sent) : sent[q].team = sent[k].team => q = k
            /\ \A q \in 1..Len(sent) :
                  /\ sent[q].from = <<in.teams[sent[q].team].lon, in.teams[sent[q].team].lat>>
                  /\ sent[q].to = in.site

\* C24: when rank is called with include_geometry set and the service has a
\* route for every candidate, the routing client accepts the call and every
\* returned row carries the road path of its route; with include_geometry
\* unset the rows are returned with no geometry.
C24_GeometryOnRequest ==
    (out # <<>> /\ NCand > 0 /\ \A i \in 1..Len(in.teams) : Usable(i)) =>
        /\ out[1].ret.ok
        /\ Len(out[1].ret.val) = NCand
        /\ \A i \in 1..Len(out[1].ret.val) :
              IF in.include_geometry
              THEN out[1].ret.val[i].geometry # None
              ELSE out[1].ret.val[i].geometry = None

-----------------------------------------------------------------------------
(* filter_teams_by_minutes called directly *)

\* two rectangles sharing the edge x = 2, and one apart from the first
RectA == Rect(0, 0, 2, 2)
RectB == Rect(2, 0, 5, 2)
RectC == Rect(3, 0, 5, 2)

GeoGeometries == (SUBSET {RectA, RectB, RectC}) \ {{}}
GeoMinutes == {15, 60}
GeoBands == [minutes : GeoMinutes, geometry : GeoGeometries]

\* band frames as isochrone_to_gdf leaves them: ascending by minutes
GeoIsoFrames ==
    {<<>>} \cup { <<b>> : b \in GeoBands }
           \cup { <<a, b>> : a \in {g \in GeoBands : g.minutes = 15},
                             b \in {g \in GeoBands : g.minutes = 60} }
           \cup { <<a, b>> : a \in {g \in GeoBands : g.minutes = 60 /\ Cardinality(g.geometry) = 1},
                             b \in {g \in GeoBands : g.minutes = 60 /\ Cardinality(g.geometry) = 1} }

\* inside RectA; on the shared edge; inside RectB and RectC; outside all
GeoPoints == {<<1, 1>>, <<2, 1>>, <<4, 1>>, <<1, 3>>}

GeoFrames ==
    UNION { { [i \in 1..n |-> TeamRow(i, f[i], Some(<<"X">>), Some(1))] : f \in [1..n -> GeoPoints] }
            : n \in 0..MaxTeams }

InitGeo ==
    /\ GuiInit
    /\ osrm_client = "api_config"
    /\ in \in [teams : GeoFrames, bands : GeoIsoFrames, minutes : GeoMinutes]
    /\ out = <<>>

CallFilterMinutes ==
    /\ out = <<>>
    /\ out' = <<filter_teams_by_minutes(in.teams, in.bands, in.minutes)>>
    /\ UNCHANGED <<guiVars, osrm_client, in>>

SpecGeo == InitGeo /\ [][CallFilterMinutes]_vars

\* the parts labelled with the requested minute value
ChosenParts ==
    UNION {in.bands[i].geometry : i \in {k \in 1..Len(in.bands) : in.bands[k].minutes = in.minutes}}

StrictlyInside(r, part) ==
    part.x1 < r.lon /\ r.lon < part.x2 /\ part.y1 < r.lat /\ r.lat < part.y2

InClosed(r, part) ==
    part.x1 <= r.lon /\ r.lon <= part.x2 /\ part.y1 <= r.lat /\ r.lat <= part.y2

\* the centre of the unit cell diagonally next to r, in doubled coordinates,
\* lies in some part
CellCovered(r, dx, dy, parts) ==
    \E part \in parts : /\ 2 * part.x1 <= 2 * r.lon + dx /\ 2 * r.lon + dx <= 2 * part.x2
                        /\ 2 * part.y1 <= 2 * r.lat + dy /\ 2 * r.lat + dy <= 2 * part.y2

\* r is a point of the union of the parts with points outside the union
\* arbitrarily near
OnBoundary(r, parts) ==
    /\ \E part \in parts : InClosed(r, part)
    /\ \E dx, dy \in {-1, 1} : ~CellCovered(r, dx, dy, parts)

Returned == {out[1][i].id : i \in 1..Len(out[1])}

-----------------------------------------------------------------------------
\* C9: a team strictly inside any part labelled with the chosen minute value
\* is returned, a team strictly outside all of them is not; the result keeps
\* the input rows and their order.
C9_InsideIncludedOutsideExcluded ==
    out # <<>> =>
        /\ \A i \in 1..Len(in.teams) :
              /\ (\E part \in ChosenParts : StrictlyInside(in.teams[i], part))
                    => i \in Returned
              /\ (\A part \in ChosenParts : ~InClosed(in.teams[i], part))
                    => i \notin Returned
        /\ \A k \in 1..Len(out[1]) :
              /\ out[1][k].id \in 1..Len(in.teams)
              /\ out[1][k] = in.teams[out[1][k].id]
        /\ \A k \in 1..(Len(out[1]) - 1) : out[1][k].id < out[1][k + 1].id

\* the chosen value is carried by two rows; a team inside the second row's
\* polygon only is returned, a team outside both is not
C9_Witness ==
    /\ out # <<>>
    /\ Len(in.bands) = 2
    /\ in.bands[1].minutes = in.minutes
    /\ in.bands[2].minutes = in.minutes
    /\ \E i, j \in 1..Len(in.teams) :
          /\ \A part \in in.bands[1].geometry : ~InClosed(in.teams[i], part)
          /\ \E part \in in.bands[2].geometry : StrictlyInside(in.teams[i], part)
          /\ i \in Returned
          /\ \A part \in ChosenParts : ~InClosed(in.teams[j], part)
          /\ j \notin Returned

\* C10 as stated: a team exactly on the boundary of the chosen band's
\* geometry is returned.
C10_BoundaryIncluded ==
    out # <<>> =>
        \A i \in 1..Len(in.teams) :
            OnBoundary(in.teams[i], ChosenParts) => i \in Returned

\* C10 as the code has it: a team exactly on the boundary of the chosen
\* band's geometry (the union of its parts) is not returned.
C10_BoundaryExcluded ==
    out # <<>> =>
        \A i \in 1..Len(in.teams) :
            OnBoundary(in.teams[i], ChosenParts) => i \notin Returned

\* a team on the edge of the single polygon of the chosen band, left out
\* while a team inside the polygon is returned
C10_Witness ==
    /\ out # <<>>
    /\ ChosenParts = {RectA}
    /\ \E i, j \in 1..Len(in.teams) :
          /\ in.teams[i].lon = 2 /\ in.teams[i].lat = 1
          /\ i \notin Returned
          /\ j \in Returned

-----------------------------------------------------------------------------
\* C11: when no band of the band set carries the requested minute value (the
\* empty band set included), the call returns normally with the empty team
\* set.
C11_AbsentMinutesEmpty ==
    (out # <<>> /\ ChosenParts = {}) => out[1] = <<>>

\* the only band is the 15 minute one and holds a team strictly inside it;
\* 60 minutes is asked for and nothing is returned
C11_Witness ==
    /\ out = << <<>> >>
    /\ Len(in.bands) = 1
    /\ in.bands[1].minutes = 15
    /\ in.minutes = 60
    /\ \E i \in 1..Len(in.teams) :
          \E part \in in.bands[1].geometry : StrictlyInside(in.teams[i], part)

-----------------------------------------------------------------------------
\* C8: preselect returns the min(limit, n) teams nearest to the origin by air
\* distance, ascending: at most limit rows, each an input team taken once,
\* no excluded team closer than an included one, empty input -> empty result.
AirDist(r) == haversine_km(in.site[2], in.site[1], r.lat, r.lon)

C8_PreselectNearestSorted ==
    out # <<>> =>
        LET res == out[1]
            ids == {res[i].id : i \in 1..Len(res)}
        IN  /\ Len(res) = Min(in.top_n, Len(in.teams))
            /\ Len(res) <= in.top_n
            /\ Cardinality(ids) = Len(res)
            /\ \A i \in 1..Len(res) :
                  /\ res[i].id \in 1..Len(in.teams)
                  /\ res[i].lon = in.teams[res[i].id].lon
                  /\ res[i].lat = in.teams[res[i].id].lat
            /\ \A i \in 1..(Len(res) - 1) : AirDist(res[i]) <= AirDist(res[i + 1])
            /\ \A e \in 1..Len(in.teams) : e \notin ids =>
                  \A i \in 1..Len(res) : AirDist(in.teams[e]) >= AirDist(res[i])
            /\ (in.teams = <<>> => res = <<>>)

\* three teams, limit 2, the farthest team first in the input and left out
C8_Witness ==
    /\ out # <<>>
    /\ Len(in.teams) = 3
    /\ in.top_n = 2
    /\ Len(out[1]) = 2
    /\ out[1][1].id # 1
    /\ \A i \in 1..2 : out[1][i].id # 1
    /\ AirDist(out[1][1]) < AirDist(out[1][2])
    /\ AirDist(out[1][2]) < AirDist(in.teams[1])

-----------------------------------------------------------------------------
(* The attribute filters called directly *)

\* team frames for the attribute filters: every row at the same point, with
\* a business unit X, Y or none and an internal flag 1, 0 or none
AttrFrames ==
    UNION { { [i \in 1..n |-> TeamRow(i, <<1, 1>>, f[i][1], f[i][2])]
              : f \in [1..n -> {None, Some(<<"X">>), Some(<<"Y">>)}
                                 \X {None, Some(0), Some(1)}] }
            : n \in 0..MaxTeams }

\* the business_unit argument: None (here the empty text), "(Any)", "X", "Y"
BusinessUnitChoices == {<<>>, AnyBU, <<"X">>, <<"Y">>}
InternalFlagChoices == {None, Some(0), Some(1)}

\* filter_by_internal_flag(filter_by_business_unit(teams, bu), flag)
BuThenIc(teams_gdf, business_unit, internal_flag) ==
    filter_by_internal_flag(filter_by_business_unit(teams_gdf, business_unit),
                            internal_flag)

\* filter_by_business_unit(filter_by_internal_flag(teams, flag), bu)
IcThenBu(teams_gdf, business_unit, internal_flag) ==
    LET first == filter_by_internal_flag(teams_gdf, internal_flag)
    IN  IF first.ok THEN Ok(filter_by_business_unit(first.val, business_unit))
                    ELSE first

InitAttr ==
    /\ GuiInit
    /\ osrm_client = "api_config"
    /\ in \in [teams : AttrFrames, business_unit : BusinessUnitChoices,
               internal_flag : InternalFlagChoices]
    /\ out = <<>>

CallAttributeFilters ==
    /\ out = <<>>
    /\ out' = <<[bu_then_ic |-> BuThenIc(in.teams, in.business_unit, in.internal_flag),
                 ic_then_bu |-> IcThenBu(in.teams, in.business_unit, in.internal_flag),
                 applied |-> apply_team_filters(in.teams, in.business_unit,
                                                in.internal_flag)]>>
    /\ UNCHANGED <<guiVars, osrm_client, in>>

SpecAttr == InitAttr /\ [][CallAttributeFilters]_vars

IdSet(df) == {df[i].id : i \in 1..Len(df)}

\* C12: business-unit filter then internal-flag filter gives the same set of
\* teams as internal-flag filter then business-unit filter, for every team
\* set and every choice of the two predicates (one order returns exactly
\* when the other does, and then with the same teams).
C12_FiltersCommute ==
    out # <<>> =>
        /\ out[1].bu_then_ic.ok <=> out[1].ic_then_bu.ok
        /\ out[1].bu_then_ic.ok =>
              IdSet(out[1].bu_then_ic.val) = IdSet(out[1].ic_then_bu.val)

\* the two orders agree whenever both return
C12_CommuteWhenBothReturn ==
    (out # <<>> /\ out[1].bu_then_ic.ok /\ out[1].ic_then_bu.ok) =>
        out[1].bu_then_ic.val = out[1].ic_then_bu.val

\* the teams the two predicates ask for: business unit equal to the chosen
\* value unless that is empty or "(Any)", internal flag equal to the chosen
\* value unless none is chosen
Satisfies(r) ==
    /\ (in.business_unit \notin {<<>>, AnyBU} => r.bu = Some(in.business_unit))
    /\ (in.internal_flag # None => r.ic = in.internal_flag)

\* C13: apply_team_filters returns exactly the teams that satisfy every
\* predicate not set to "any", in input order; with both predicates at "any"
\* it returns the whole input.
C13_ExactlyTheMatchingTeams ==
    out # <<>> =>
        /\ out[1].applied.ok
        /\ out[1].applied.val = SelectSeq(in.teams, Satisfies)

\* whenever apply_team_filters returns, it returns exactly the matching teams
C13_ExactWhenItReturns ==
    (out # <<>> /\ out[1].applied.ok) =>
        out[1].applied.val = SelectSeq(in.teams, Satisfies)

-----------------------------------------------------------------------------
(* list_business_units called directly *)

\* rosters whose business units are "X", "Y", "x" or missing
BuFrames ==
    UNION { { [i \in 1..n |-> TeamRow(i, <<1, 1>>, f[i], Some(1))]
              : f \in [1..n -> {None, Some(<<"X">>), Some(<<"Y">>), Some(<<"x">>)}] }
            : n \in 0..MaxTeams }

InitBU ==
    /\ GuiInit
    /\ osrm_client = "api_config"
    /\ in \in [df : BuFrames]
    /\ out = <<>>

CallListBusinessUnits ==
    /\ out = <<>>
    /\ out' = <<list_business_units(in.df)>>
    /\ UNCHANGED <<guiVars, osrm_client, in>>

SpecBU == InitBU /\ [][CallListBusinessUnits]_vars

\* the business units of the roster
BuValues == {in.df[i].bu[1] : i \in {k \in 1..Len(in.df) : in.df[k].bu # None}}

C15_CaseNormalizedAlphabetical ==
    out # <<>> =>
        /\ \A i, j \in 2..Len(out[1]) :
              upper(out[1][i]) = upper(out[1][j]) => i = j
        /\ \A i \in 2..(Len(out[1]) - 1) :
              StrLess(upper(out[1][i]), upper(out[1][i + 1]))

\* C15 as the code has it: the options after "(Any)" are the distinct
\* business-unit values of the roster exactly as written (values that differ
\* in letter case are different options), ascending in code-point order
\* (upper-case letters before lower-case ones).
C15_DistinctAsWrittenCodePointOrder ==
    out # <<>> =>
        /\ {out[1][i] : i \in 2..Len(out[1])} = BuValues
        /\ Len(out[1]) = 1 + Cardinality(BuValues)
        /\ \A i \in 2..(Len(out[1]) - 1) : StrLess(out[1][i], out[1][i + 1])

\* the roster has "x", "Y" and "X": three options, "X", "Y", "x"
C15_Witness ==
    /\ out = << <<AnyBU, <<"X">>, <<"Y">>, <<"x">> >> >>
    /\ Len(in.df) = 3
    /\ in.df[1].bu = Some(<<"x">>)

-----------------------------------------------------------------------------
(* isochrone_to_gdf called directly *)

\* the contour attribute of a feature: a number, a numeric text, a text that
\* is no number, or absent
Contours ==
    { [t |-> "num", n |-> 15], [t |-> "num", n |-> 60],
      [t |-> "str", v |-> "15"], [t |-> "str", v |-> "60"],
      [t |-> "str", v |-> "abc"], [t |-> "none"] }

\* the k-th feature of a response has a polygon of its own
IsoFeatureLists ==
    UNION { { [k \in 1..n |-> Feature(f[k], {Rect(0, 0, k, k)})] : f \in [1..n -> Contours] }
            : n \in 0..MaxFeatures }

\* no response, a response without "features", a response with features
IsoResponses ==
    {None, [type |-> "FeatureCollection"]}
        \cup { [type |-> "FeatureCollection", features |-> fs] : fs \in IsoFeatureLists }

InitIso ==
    /\ GuiInit
    /\ osrm_client = "api_config"
    /\ in \in [iso_geojson : IsoResponses]
    /\ out = <<>>

CallIsochroneToGdf ==
    /\ out = <<>>
    /\ \E o \in isochrone_to_gdf(ResponseFeatures(in.iso_geojson)) : out' = <<o>>
    /\ UNCHANGED <<guiVars, osrm_client, in>>

SpecIso == InitIso /\ [][CallIsochroneToGdf]_vars

\* the features of the response
InFeatures ==
    IF in.iso_geojson # None /\ "features" \in DOMAIN in.iso_geojson
    THEN in.iso_geojson.features ELSE <<>>

\* the minute value a parsable contour stands for
Parsable(c) == c.t = "num" \/ (c.t = "str" /\ c.v \in {"15", "60"})
MinutesOf(c) == IF c.t = "num" THEN c.n ELSE IF c.v = "15" THEN 15 ELSE 60

\* C16: for a response whose contours are all numbers or numeric texts, the
\* result has exactly one band per feature, with the contour as an integer
\* and the feature's geometry, ascending by minutes; a response with no
\* features, and no response, give the empty sequence.
C16_OneBandPerFeatureAscending ==
    (out # <<>> /\ \A k \in 1..Len(InFeatures) : Parsable(InFeatures[k].contour)) =>
        /\ out[1].ok
        /\ Len(out[1].val) = Len(InFeatures)
        /\ \A k \in 1..Len(InFeatures) :
              \E i \in 1..Len(out[1].val) :
                 /\ out[1].val[i].geometry = InFeatures[k].geometry
                 /\ out[1].val[i].minutes = MinutesOf(InFeatures[k].contour)
        /\ \A i \in 1..(Len(out[1].val) - 1) :
              out[1].val[i].minutes <= out[1].val[i + 1].minutes
        /\ (InFeatures = <<>> => out[1].val = <<>>)

\* three features, "60" as a text first, then 15 as a number, then 60 as a
\* number: three bands, the 15 minute one first
C16_Witness ==
    /\ out # <<>>
    /\ Len(InFeatures) = 3
    /\ InFeatures[1].contour = [t |-> "str", v |-> "60"]
    /\ InFeatures[2].contour = [t |-> "num", n |-> 15]
    /\ InFeatures[3].contour = [t |-> "num", n |-> 60]
    /\ out[1].ok
    /\ Len(out[1].val) = 3
    /\ out[1].val[1] = [minutes |-> 15, geometry |-> InFeatures[2].geometry]

\* C17: when some feature's contour is absent or no number, the conversion
\* fails for the whole response: no band sequence is returned.
C17_BadContourFailsWhole ==
    (out # <<>> /\ \E k \in 1..Len(InFeatures) : ~Parsable(InFeatures[k].contour)) =>
        ~out[1].ok

\* a response with a good feature and, after it, one without a contour: the
\* conversion has failed
C17_Witness ==
    /\ out # <<>>
    /\ Len(InFeatures) = 2
    /\ InFeatures[1].contour = [t |-> "num", n |-> 15]
    /\ InFeatures[2].contour = [t |-> "none"]
    /\ ~out[1].ok

-----------------------------------------------------------------------------
(* osrm_route called directly *)

\* distances (m) and durations (s) a route may report
RouteDistances == {0, 1, 500, 999, 1000, 1500, 12345, 20000}
RouteDurations == {0, 1, 59, 60, 90, 100, 900, 3600}

RouteResponses ==
    { [status |-> "ok", routes |-> <<[distance |-> dist, duration |-> dur]>>]
        : dist \in RouteDistances, dur \in RouteDurations }
    \cup { [status |-> "ok", routes |-> <<>>], [status |-> "error", routes |-> <<>>] }

InitRoute ==
    /\ GuiInit
    /\ osrm_client = "api_config"
    /\ in \in [response : RouteResponses]
    /\ out = <<>>

CallOsrmRoute ==
    /\ out = <<>>
    /\ out' = <<osrm_route_result(in.response)>>
    /\ UNCHANGED <<guiVars, osrm_client, in>>

SpecRoute == InitRoute /\ [][CallOsrmRoute]_vars

\* C18: for a response reporting d metres and t seconds the result has
\* distance_km = d / 1000, duration_min = t / 60 and co2_kg = distance_km
\* times 0.171, each to the thousandth: 12345 m and 900 s give 12.345 km and
\* 15.000 min. (Results are in thousandths; a quotient is cut to the
\* thousandth below.)
C18_UnitConversions ==
    (out # <<>> /\ in.response.status = "ok" /\ in.response.routes # <<>>) =>
        LET d == in.response.routes[1].distance
            s == in.response.routes[1].duration
            res == out[1]
        IN  /\ res.ok
            /\ res.val.distance_km = d
            /\ 60 * res.val.duration_min <= 1000 * s
            /\ 1000 * s < 60 * (res.val.duration_min + 1)
            /\ 1000 * res.val.co2_kg <= res.val.distance_km * 171
            /\ res.val.distance_km * 171 < 1000 * (res.val.co2_kg + 1)
            /\ ((d = 12345 /\ s = 900) =>
                   res.val.distance_km = 12345 /\ res.val.duration_min = 15000)

\* the route of 12345 m and 900 s: 12.345 km, 15.000 min, 2.110 kg
C18_Witness ==
    /\ out # <<>>
    /\ in.response.routes = <<[distance |-> 12345, duration |-> 900]>>
    /\ out[1] = Ok([distance_km |-> 12345, duration_min |-> 15000, co2_kg |-> 2110])

-----------------------------------------------------------------------------
(* geocode_postcode called directly *)

\* postcodes handed to geocode_postcode: "A", " a", "a b", "b", "B ", "x",
\* "a", " B"
GeocodeInputs ==
    { <<"A">>, <<" ", "a">>, <<"a", " ", "b">>, <<"b">>, <<"B", " ">>,
      <<"x">>, <<"a">>, <<" ", "B">> }

\* what requests.get gives for the request: it raises (timeout), or returns
\* a response: the postcode's point, a 200 body without "result", 404, or
\* another failure status
GeocodeResponses(key) ==
    { [raised |-> "Timeout"],
      [status |-> 200, result |-> SiteOf(key)],
      [status |-> 200, result |-> <<>>],
      [status |-> 404, result |-> <<>>],
      [status |-> 400, result |-> <<>>],
      [status |-> 500, result |-> <<>>],
      [status |-> 503, result |-> <<>>] }

InitGeocode ==
    /\ GuiInit
    /\ osrm_client = "api_config"
    /\ \E pc \in GeocodeInputs :
       \E r \in GeocodeResponses(geocode_key(pc)) :
          in = [postcode |-> pc, response |-> r]
    /\ out = <<>>

CallGeocodePostcode ==
    /\ out = <<>>
    /\ out' = <<[key |-> geocode_key(in.postcode),
                 res |-> geocode_postcode_result(in.response)]>>
    /\ UNCHANGED <<guiVars, osrm_client, in>>

SpecGeocode == InitGeocode /\ [][CallGeocodePostcode]_vars

\* the response is a 200 answer carrying the point of the postcode
GeocodeSucceeded ==
    /\ "status" \in DOMAIN in.response
    /\ in.response.status = 200
    /\ in.response.result # <<>>

\* C19: the geocoder fails with PostcodeNotFound exactly when the service
\* answers 404, fails with the service error (HTTPError) for every other
\* failure (another failure status, a timeout, a malformed body), and returns
\* a (longitude, latitude) pair only for a successful response.
C19_GeocoderErrors ==
    out # <<>> =>
        /\ (out[1].res = Raise("PostcodeNotFound"))
              <=> ("status" \in DOMAIN in.response /\ in.response.status = 404)
        /\ (~GeocodeSucceeded /\ out[1].res # Raise("PostcodeNotFound"))
              => out[1].res = Raise("HTTPError")
        /\ out[1].res.ok <=> GeocodeSucceeded
        /\ out[1].res.ok => out[1].res.val = in.response.result

\* what the code does: PostcodeNotFound exactly on 404, HTTPError exactly on
\* another failure status, a pair exactly on a 200 answer with a result
C19_StatusErrors ==
    (out # <<>> /\ "status" \in DOMAIN in.response) =>
        /\ (out[1].res = Raise("PostcodeNotFound")) <=> in.response.status = 404
        /\ (out[1].res = Raise("HTTPError")) <=> in.response.status \notin {200, 404}
        /\ out[1].res.ok <=> GeocodeSucceeded

-----------------------------------------------------------------------------
(* The spatial team set built from a loaded roster *)

CoordinateValues == {None, Some(1), NonNumeric}

\* rows as read from the database
SqlRows ==
    UNION { { [i \in 1..n |-> RosterRow(i, f[i][1], f[i][2], Some(<<"X">>), Some(1))]
              : f \in [1..n -> CoordinateValues \X CoordinateValues] }
            : n \in 0..MaxTeams }

Loaders == {"__main__", "run_gui_sql"}

\* a 60 minute band around every team point of the model
WideBand == <<[minutes |-> 60, geometry |-> {Rect(0, 0, 4, 4)}]>>

InitTeams ==
    /\ GuiInit
    /\ osrm_client = "keyword_stub"
    /\ in \in [loader : Loaders, rows : SqlRows]
    /\ out = <<>>

\* ResourceFinderApp(root, load_fieldteams()), then containment, preselect
\* and rank on the spatial team set, from the site (3, 2)
CallBuildTeams ==
    /\ out = <<>>
    /\ LET built == teams_to_gdf_result(load_fieldteams(in.loader, in.rows))
       IN  IF ~built.ok
           THEN out' = <<[teams |-> built]>>
           ELSE \E pre \in preselect_by_air_distance(built.val, 3, 2, MaxTeams) :
                \E o \in route_rank_teams(built.val, 3, 2, MaxTeams, FALSE, osrm_client,
                                          [i \in 1..Len(in.rows) |->
                                              [status |-> "ok",
                                               routes |-> <<[distance |-> 1000 * i,
                                                             duration |-> 60 * i]>>]]) :
                   out' = <<[teams |-> built,
                             within |-> filter_teams_by_minutes(built.val, WideBand, 60),
                             preselect |-> pre,
                             rank |-> o.ret]>>
    /\ UNCHANGED <<guiVars, osrm_client, in>>

SpecTeams == InitTeams /\ [][CallBuildTeams]_vars

\* the rows with a missing or non-numeric coordinate, and the others
Unlocated == {i \in 1..Len(in.rows) :
                 in.rows[i].Latitude \in {None, NonNumeric}
                     \/ in.rows[i].Longitude \in {None, NonNumeric}}
Located == (1..Len(in.rows)) \ Unlocated

\* C20: building the spatial team set does not raise because of a team with
\* a missing or non-numeric coordinate; such a team is in no containment,
\* preselect or rank result, and the other teams are all in the team set.
C20_UnlocatedTeamsDropped ==
    out # <<>> =>
        /\ out[1].teams.ok
        /\ IdSet(out[1].teams.val) = Located
        /\ IdSet(out[1].within) \cap Unlocated = {}
        /\ IdSet(out[1].preselect) \cap Unlocated = {}
        /\ out[1].rank.ok
        /\ IdSet(out[1].rank.val) \cap Unlocated = {}

\* with the roster of run_gui_sql.py, and whenever the team set is built, the
\* teams without a usable coordinate are in no result
C20_DroppedWhenBuilt ==
    out # <<>> =>
        /\ (in.loader = "run_gui_sql" => out[1].teams.ok)
        /\ out[1].teams.ok =>
              /\ IdSet(out[1].teams.val) = Located
              /\ IdSet(out[1].within) = Located
              /\ IdSet(out[1].preselect) = Located
              /\ out[1].rank.ok
              /\ IdSet(out[1].rank.val) = Located

-----------------------------------------------------------------------------
(* The roster object under the filtering, preselect and rank calls *)

\* a preselect that adds the air_km column to the frame it was given
ArgumentAfter_in_place(op, teams_df, site_lon, site_lat) ==
    IF op \in {"preselect_by_air_distance", "route_rank_teams"} /\ teams_df # <<>>
    THEN WithAirKm(teams_df, site_lon, site_lat)
    ELSE teams_df

\* the rows of the frame object passed to a call, once the call is over: the
\* filters only read it (boolean indexing, reset_index), preselect writes
\* air_km to tmp = teams_df.copy()
ArgumentAfter(op, teams_df, site_lon, site_lat) == teams_df

\* the object a call returns: the frame it was given ("argument") or a frame
\* built by the call ("new")
ReturnedObject(op, business_unit, internal_flag) ==
    CASE op = "filter_by_business_unit" ->
            IF business_unit = <<>> \/ business_unit = AnyBU THEN "argument" ELSE "new"
      [] op = "filter_by_internal_flag" ->
            IF internal_flag \in {Some(0), Some(1)} THEN "new" ELSE "argument"
      [] OTHER -> "new"

FrameRows ==
    UNION { { [i \in 1..n |-> TeamRow(i, f[i][1], Some(f[i][2][1]), Some(f[i][2][2]))]
              : f \in [1..n -> {<<1, 1>>, <<3, 1>>} \X {<<<<"X">>, 1>>, <<<<"Y">>, 0>>}] }
            : n \in 0..MaxTeams }

\* out.df: the rows of the roster object; out.last: the last call and what
\* it returned
InitFrames ==
    /\ GuiInit
    /\ osrm_client = "keyword_stub"
    /\ in \in [df : FrameRows]
    /\ out = [df |-> in.df, last |-> [op |-> "none"]]

\* a call of op on the roster object, returning res
FrameCall(op, business_unit, internal_flag, res) ==
    /\ out' = [df |-> ArgumentAfter(op, out.df, 3, 2),
               last |-> [op |-> op, business_unit |-> business_unit,
                         internal_flag |-> internal_flag,
                         object |-> ReturnedObject(op, business_unit, internal_flag),
                         res |-> res]]
    /\ UNCHANGED <<guiVars, osrm_client, in>>

FilterMinutesOnRoster ==
    FrameCall("filter_teams_by_minutes", <<>>, None,
              filter_teams_by_minutes(out.df, <<[minutes |-> 60, geometry |-> {Rect(0, 0, 2, 2)}]>>, 60))

FilterBusinessUnitOnRoster ==
    \E bu \in BusinessUnitChoices :
        FrameCall("filter_by_business_unit", bu, None, filter_by_business_unit(out.df, bu))

FilterInternalFlagOnRoster ==
    \E flag \in InternalFlagChoices :
        FrameCall("filter_by_internal_flag", <<>>, flag,
                  filter_by_internal_flag(out.df, flag).val)

ApplyTeamFiltersOnRoster ==
    \E bu \in BusinessUnitChoices, flag \in InternalFlagChoices :
        FrameCall("apply_team_filters", bu, flag, apply_team_filters(out.df, bu, flag).val)

PreselectOnRoster ==
    \E res \in preselect_by_air_distance(out.df, 3, 2, MaxTopN) :
        FrameCall("preselect_by_air_distance", <<>>, None, res)

RankOnRoster ==
    \E o \in route_rank_teams(out.df, 3, 2, MaxTopN, FALSE, osrm_client,
                              [i \in 1..Len(out.df) |-> RoadAnswer(out.df[i], <<3, 2>>)]) :
        FrameCall("route_rank_teams", <<>>, None, o.ret.val)

NextFrames ==
    \/ FilterMinutesOnRoster
    \/ FilterBusinessUnitOnRoster
    \/ FilterInternalFlagOnRoster
    \/ ApplyTeamFiltersOnRoster
    \/ PreselectOnRoster
    \/ RankOnRoster

SpecFrames == InitFrames /\ [][NextFrames]_vars

-----------------------------------------------------------------------------
(* The state of the graphical application between queries *)

\* the last event was a postcode lookup that loaded a new site
PostcodeLoaded == handler = "postcode" /\ Len(reqs) = 2 /\ dialog = "none"

\* the last event was Apply filters, and it replaced the filtered set
FiltersApplied == handler = "apply" /\ dialog = "none"

\* C22: once a new postcode is loaded or the filters are re-applied, no routed
\* candidate of the earlier query is stored any more.
C22_RoutesNotKept ==
    (PostcodeLoaded \/ FiltersApplied) => routes_df = <<>>

-----------------------------------------------------------------------------
(* src/gui_app.py: the stand-alone revision of the application *)

\* The stand-alone application keeps the entry text (in.pc_var), the filter
\* widgets, site, iso_gdf and filtered; it has no current_pc. out is an
\* observation: the postcode for which the isochrone in iso_gdf was fetched.
\* Its Calculate handler calls a routing_config module that is not part of
\* src/ and is left out.
InitStandalone ==
    /\ GuiInit
    /\ osrm_client = "api_config"
    /\ in = [pc_var |-> <<>>]
    /\ out = <<>>

\* the user types into the postcode entry (no handler is bound to it)
StandaloneTypePostcode ==
    /\ \E text \in PostcodeInputs : in' = [pc_var |-> text]
    /\ handler' = "input"
    /\ reqs' = <<>>
    /\ dialog' = "none"
    /\ UNCHANGED <<pc_read, bu_var, bu_values, internal_var, minutes_var, current_pc,
                   site, iso_gdf, filtered, routes_df, tree, selection,
                   map_route, osrm_client, out>>

\* on_apply_filters of src/gui_app.py
StandaloneApplyFilters ==
    LET pc == strip(in.pc_var)
    IN  /\ handler' = "apply"
        /\ UNCHANGED <<pc_read, internal_var, minutes_var, current_pc, routes_df,
                       selection, map_route, osrm_client, in>>
        /\ IF pc = <<>>
           THEN /\ reqs' = <<>>
                /\ dialog' = "Input needed"
                /\ UNCHANGED <<bu_var, bu_values, site, iso_gdf, filtered, tree, out>>
           ELSE \E ga \in GeocodeAnswers(geocode_key(pc)) :
                LET geo == geocode_postcode_result(ga)
                IN  IF ~geo.ok
                    THEN /\ reqs' = <<GeocodeRequest(pc)>>
                         /\ dialog' = IF geo.err = "PostcodeNotFound"
                                      THEN "Invalid postcode" ELSE "Error"
                         /\ UNCHANGED <<bu_var, bu_values, site, iso_gdf, filtered,
                                        tree, out>>
                    ELSE \E ia \in IsoAnswers(geo.val) :
                         \E gdf \in IF fetch_isochrone_result(ia).ok
                                    THEN isochrone_to_gdf(fetch_isochrone_result(ia).val)
                                    ELSE {fetch_isochrone_result(ia)} :
                            /\ reqs' = <<GeocodeRequest(pc), IsochroneRequest(geo.val)>>
                            /\ site' = geo.val
                            /\ IF ~gdf.ok
                               THEN /\ dialog' = "Error"
                                    /\ UNCHANGED <<bu_var, bu_values, iso_gdf, filtered,
                                                   tree, out>>
                               ELSE LET mins == ParseInt(minutes_var)[1]
                                        within_df == filter_teams_by_minutes(
                                                        teams_to_gdf(Roster), gdf.val, mins)
                                        internal_flag ==
                                            IF internal_var = "either" THEN None
                                            ELSE IF internal_var = "1" THEN Some(1)
                                            ELSE Some(0)
                                        bu_choice == IF bu_var = <<>> THEN AnyBU ELSE bu_var
                                        res == apply_team_filters(within_df, bu_choice,
                                                                  internal_flag)
                                    IN  /\ iso_gdf' = Some(gdf.val)
                                        /\ out' = <<pc>>
                                        /\ IF ~res.ok
                                           THEN /\ dialog' = "traceback"
                                                /\ UNCHANGED <<bu_var, bu_values,
                                                               filtered, tree>>
                                           ELSE /\ bu_values' = list_business_units(res.val)
                                                /\ bu_var' =
                                                     IF \E i \in 1..Len(list_business_units(res.val)) :
                                                           list_business_units(res.val)[i] = bu_choice
                                                     THEN bu_var ELSE AnyBU
                                                /\ tree' = Ids(res.val)
                                                /\ filtered' = res.val
                                                /\ dialog' = "none"

NextStandalone ==
    \/ StandaloneTypePostcode
    \/ ChooseBusinessUnit
    \/ ChooseInternal
    \/ ChooseMinutes
    \/ StandaloneApplyFilters

SpecStandalone == InitStandalone /\ [][NextStandalone]_vars

\* C23: in the stand-alone application, Apply filters pressed with the
\* postcode for which the isochrone held was fetched (only the minutes tab,
\* the business unit or the internal flag changed since) sends no isochrone
\* request.
C23_SingleFetchPerPostcode ==
    [][ (handler' = "apply" /\ iso_gdf # None /\ out = <<strip(in'.pc_var)>>)
            => "isochrone" \notin Kinds(reqs') ]_vars

-----------------------------------------------------------------------------
\* C25: in every state of the application the site, the bands held, the
\* filtered teams and the cached postcode come from one successful lookup, or
\* are all unset: the site is the point of the cached postcode, the bands are
\* those fetched for that site and the filtered teams lie within them.
C25_OneLookup ==
    IF current_pc = None
    THEN site = None /\ iso_gdf = None /\ filtered = <<>>
    ELSE /\ site = SiteOf(geocode_key(current_pc[1]))
         /\ iso_gdf # None
         /\ \E ia \in IsoAnswers(site) :
               /\ fetch_isochrone_result(ia).ok
               /\ \E g \in isochrone_to_gdf(fetch_isochrone_result(ia).val) :
                     g.ok /\ g.val = iso_gdf[1]
         /\ IdSet(filtered) \subseteq
               IdSet(filter_teams_by_minutes(teams_to_gdf(Roster), iso_gdf[1], 60))

-----------------------------------------------------------------------------
\* the team of the roster with this id
TeamOf(id) ==
    LET teams == teams_to_gdf(Roster)
    IN  teams[CHOOSE i \in 1..Len(teams) : teams[i].id = id]

\* C26: whenever Calculate routes sends routing requests, every team a
\* request is for lies within the band of the minutes selected in the
\* window and has the business unit and the internal flag selected there.
C26_RoutedTeamsMatchSelection ==
    (handler = "calculate" /\ reqs # <<>>) =>
        \A q \in 1..Len(reqs) :
            /\ reqs[q].team \in IdSet(filter_teams_by_minutes(
                                   teams_to_gdf(Roster), iso_gdf[1],
                                   ParseInt(minutes_var)[1]))
            /\ bu_var \notin {<<>>, AnyBU} => TeamOf(reqs[q].team).bu = Some(bu_var)
            /\ internal_var = "1" => TeamOf(reqs[q].team).ic = Some(1)
            /\ internal_var = "0" => TeamOf(reqs[q].team).ic = Some(0)

-----------------------------------------------------------------------------
\* C27: filter_by_internal_flag with a flag of 0 or 1, on a team set holding
\* a team whose InternalContractor value is missing, returns (it does not
\* raise) and no returned team has a missing value.
C27_MissingFlagExcluded ==
    (out # <<>> /\ in.internal_flag # None
        /\ \E i \in 1..Len(in.teams) : in.teams[i].ic = None) =>
        /\ out[1].ic_then_bu.ok
        /\ \A i \in 1..Len(out[1].ic_then_bu.val) :
              out[1].ic_then_bu.val[i].ic = in.internal_flag

====
